---------------------------- MODULE Spec2Model ----------------------------
(***************************************************************************)
(* Verification model of the tvis data engine: the f32 CircularBuffer of   *)
(* process/history.rs and metrics/process/history.rs, the process          *)
(* relation resolver of process/monitor.rs and metrics/process/monitor.rs, *)
(* the refresh tick of ProcessMonitorApp (app.rs) with its ProcessHistory, *)
(* and the worker thread of Metrics (metrics/mod.rs) with the RwLock it    *)
(* shares with the UI thread.                                              *)
(*                                                                         *)
(* Sample values (f32 in the source) are modelled as naturals: the claims  *)
(* checked here concern the window bookkeeping, not rounding.  Rust        *)
(* indices are 0-based; TLA+ sequences are 1-based, so data[i] of the      *)
(* source is data[i + 1] here.                                             *)
(***************************************************************************)
EXTENDS Integers, Sequences, FiniteSets, TLC

\* ------------------------------------------------------------------ bounds
MaxCap == 3
MaxPush == 5
MaxVal == 2

MaxPid == 3

VARIABLES
    buf,        \* the CircularBuffer under test (data, position, peak_value, sum, len)
    pushed,     \* history of every value pushed since construction, oldest first
    system,     \* ProcessMonitor::system.processes(): pid -> Process, or NoProc
    query,      \* the last call made on the monitor, with what it returned
    walk,       \* one call of collect_child_pids run step by step: its call stack
    app,        \* the ProcessMonitorApp of app.rs: monitor, history, watch list, settings
    now,        \* the monotonic clock Instant::now() reads
    metrics,    \* the Metrics behind Arc<RwLock<..>> of metrics/mod.rs, with its lock
    worker      \* the background thread of Metrics::new: its position and locals

bufVars == <<buf, pushed>>
monVars == <<system, query>>
appVars == <<app, now>>
metVars == <<metrics, worker>>
vars == <<buf, pushed, system, query, walk, app, now, metrics, worker>>

\* a component the specification at hand does not construct
NotBuilt == [built |-> FALSE]
IdleApp == app = NotBuilt /\ now = 0
IdleMetrics == metrics = NotBuilt /\ worker = NotBuilt

\* ------------------------------------------------------------ pure helpers
Min2(a, b) == IF a < b THEN a ELSE b

\* f32::max on the modelled values
f32_max(a, b) == IF a >= b THEN a ELSE b

RECURSIVE SeqSum(_)
SeqSum(s) == IF s = <<>> THEN 0 ELSE s[1] + SeqSum(Tail(s))

RECURSIVE SeqMax(_)
SeqMax(s) == IF s = <<>> THEN 0 ELSE f32_max(s[1], SeqMax(Tail(s)))

\* the last k elements of s (all of s when it is shorter)
LastN(s, k) == SubSeq(s, Len(s) - Min2(Len(s), k) + 1, Len(s))

\* ---------------------------------------------------------- CircularBuffer
\* CircularBuffer::new: vec![0.0; size], everything else zero
CircularBuffer_new(size) ==
    [data |-> [i \in 1..size |-> 0],
     position |-> 0,
     peak_value |-> 0,
     sum |-> 0,
     len |-> 0]

\* data.iter().copied().fold(0.0, f32::max)
fold_max(data) == SeqMax(data)

\* push written without the subtraction of the overwritten slot
push_keep_evicted(b, value) ==
    LET len1  == IF b.len = Len(b.data) THEN b.len ELSE b.len + 1
        sum2  == b.sum + value
        data1 == [b.data EXCEPT ![b.position + 1] = value]
        pos1  == (b.position + 1) % Len(b.data)
        peak1 == IF value > b.peak_value THEN value
                 ELSE IF b.peak_value = data1[pos1 + 1] THEN fold_max(data1)
                 ELSE b.peak_value
    IN  [data |-> data1, position |-> pos1, peak_value |-> peak1,
         sum |-> sum2, len |-> len1]

\* push counting every sample, also once the buffer is full
push_count_every(b, value) ==
    LET full  == b.len >= Len(b.data)
        sum1  == IF full THEN b.sum - b.data[b.position + 1] ELSE b.sum
        data1 == [b.data EXCEPT ![b.position + 1] = value]
        pos1  == (b.position + 1) % Len(b.data)
        peak1 == IF value > b.peak_value THEN value
                 ELSE IF b.peak_value = data1[pos1 + 1] THEN fold_max(data1)
                 ELSE b.peak_value
    IN  [data |-> data1, position |-> pos1, peak_value |-> peak1,
         sum |-> sum1 + value, len |-> b.len + 1]

\* push taking the peak from the slots of the buffer on every call
push_peak_of_data(b, value) ==
    LET full  == b.len = Len(b.data)
        sum1  == IF full THEN b.sum - b.data[b.position + 1] ELSE b.sum
        len1  == IF full THEN b.len ELSE b.len + 1
        data1 == [b.data EXCEPT ![b.position + 1] = value]
        pos1  == (b.position + 1) % Len(b.data)
    IN  [data |-> data1, position |-> pos1, peak_value |-> fold_max(data1),
         sum |-> sum1 + value, len |-> len1]

\* CircularBuffer::push
push(b, value) ==
    LET full  == b.len = Len(b.data)
        sum1  == IF full THEN b.sum - b.data[b.position + 1] ELSE b.sum
        len1  == IF full THEN b.len ELSE b.len + 1
        sum2  == sum1 + value
        data1 == [b.data EXCEPT ![b.position + 1] = value]
        pos1  == (b.position + 1) % Len(b.data)
        \* the comparison reads data at the position already advanced
        peak1 == IF value > b.peak_value THEN value
                 ELSE IF b.peak_value = data1[pos1 + 1] THEN fold_max(data1)
                 ELSE b.peak_value
    IN  [data |-> data1, position |-> pos1, peak_value |-> peak1,
         sum |-> sum2, len |-> len1]

\* as_slices: split_at(position), returned as (second, first)
as_slices(b) ==
    <<SubSeq(b.data, b.position + 1, Len(b.data)), SubSeq(b.data, 1, b.position)>>

\* as_slice written without swapping the two halves
as_slice_unswapped(b) == as_slices(b)[2] \o as_slices(b)[1]

\* CircularBuffer::as_slice
as_slice(b) == as_slices(b)[1] \o as_slices(b)[2]

\* CircularBuffer::max_value
max_value(b) == b.peak_value

\* last_value reading the slot at the write position
last_value_at_position(b) == b.data[b.position + 1]

\* CircularBuffer::last_value
last_value(b) ==
    IF b.position = 0 THEN b.data[Len(b.data)] ELSE b.data[b.position]

\* CircularBuffer::average; the f32 quotient is kept as numerator/denominator
average(b) ==
    IF b.len = 0 THEN [num |-> 0, den |-> 1]
    ELSE [num |-> b.sum, den |-> b.len]

\* ------------------------------------------------- specification: buffer
capacity == Len(buf.data)
window == LastN(pushed, capacity)

InitBuf ==
    /\ \E size \in 1..MaxCap : buf = CircularBuffer_new(size)
    /\ pushed = <<>>

Push(value) ==
    /\ Len(pushed) < MaxPush
    /\ buf' = push(buf, value)
    /\ pushed' = Append(pushed, value)

NextBuf == \E value \in 0..MaxVal : Push(value)

\* a buffer that no step of the specification at hand touches
IdleBuf ==
    /\ buf = CircularBuffer_new(1)
    /\ pushed = <<>>


\* ------------------------------------------------------ process snapshot
Pids == 1..MaxPid
NoProc == [present |-> FALSE]
NoQuery == [op |-> "none"]
\* Option<Pid>::None of Process::parent()
NoParent == 0

\* one entry of System::processes(): what sysinfo::Process reports
Process(parent, name, thread_kind, cpu_usage, memory) ==
    [present |-> TRUE, parent |-> parent, name |-> name,
     thread_kind |-> thread_kind, cpu_usage |-> cpu_usage, memory |-> memory]

\* the keys of System::processes()
Present(sys) == {p \in Pids : sys[p].present}

\* every order in which the HashMap of a snapshot can be enumerated
Orders(sys) ==
    LET S == Present(sys)
        n == Cardinality(S)
    IN  {o \in [1..n -> S] : \A i, j \in 1..n : o[i] = o[j] => i = j}

Range(s) == {s[i] : i \in 1..Len(s)}
NoDup(s) == \A i, j \in 1..Len(s) : s[i] = s[j] => i = j

\* ProcessIdentifier
IdPid(pid) == [kind |-> "Pid", pid |-> pid]
IdName(name) == [kind |-> "Name", name |-> name]

\* ---------------------------------------------------- relation resolver
\* collect_child_pids without the recursive call: direct children only
collect_child_pids_direct(sys, ord, i, parent_pids, seen_pids, child_pids) ==
    LET direct == SelectSeq(SubSeq(ord, i, Len(ord)),
                      LAMBDA pid : /\ pid \notin seen_pids
                                   /\ sys[pid].parent # NoParent
                                   /\ sys[pid].parent \in Range(parent_pids))
    IN  [child_pids |-> child_pids \o direct,
         seen_pids |-> seen_pids \cup Range(direct)]

\* ProcessMonitor::collect_child_pids: the loop over system.processes() from
\* its i-th entry on, with the seen set (a &mut shared with the caller and
\* with every recursive call) and the child_pids gathered so far
RECURSIVE collect_child_pids(_, _, _, _, _, _)
collect_child_pids(sys, ord, i, parent_pids, seen_pids, child_pids) ==
    IF i > Len(ord) THEN [child_pids |-> child_pids, seen_pids |-> seen_pids]
    ELSE
        LET pid == ord[i]
        IN  IF /\ pid \notin seen_pids
               /\ sys[pid].parent # NoParent
               /\ sys[pid].parent \in Range(parent_pids)
            THEN
                LET seen1 == seen_pids \cup {pid}
                    grandchildren ==
                        collect_child_pids(sys, ord, 1, <<pid>>, seen1, <<>>)
                IN  collect_child_pids(sys, ord, i + 1, parent_pids,
                        grandchildren.seen_pids,
                        (child_pids \o <<pid>>) \o grandchildren.child_pids)
            ELSE collect_child_pids(sys, ord, i + 1, parent_pids,
                                    seen_pids, child_pids)


None == [some |-> FALSE]
Some(processes, thread_count) ==
    [some |-> TRUE, processes |-> processes, thread_count |-> thread_count]

IsThread(info) == info.is_thread
NotThread(info) == ~info.is_thread

\* ------------------------------------------- metrics/process/monitor.rs
\* name.contains("Thread") on the names of the model
contains_Thread(name) == name \in {"Thread"}

\* ProcessMonitor::collect_process_info (metrics/process/monitor.rs)
metrics_collect_process_info(sys, pid) ==
    [name |-> sys[pid].name,
     pid |-> pid,
     parent_pid |-> sys[pid].parent,
     cpu_usage |-> sys[pid].cpu_usage,
     memory_mb |-> sys[pid].memory \div 1024,
     is_thread |-> contains_Thread(sys[pid].name)]

metrics_infos(sys, pids) ==
    [k \in 1..Len(pids) |-> metrics_collect_process_info(sys, pids[k])]

\* the Name arm's loop without the !seen_pids.contains(pid) test
RECURSIVE metrics_name_loop_unchecked(_, _, _, _, _, _)
metrics_name_loop_unchecked(sys, ord, matching_pids, k, all_processes, seen_pids) ==
    IF k > Len(matching_pids) THEN all_processes
    ELSE
        LET pid == matching_pids[k]
            seen1 == seen_pids \cup {pid}
            children == collect_child_pids(sys, ord, 1, <<pid>>, seen1, <<>>)
        IN  metrics_name_loop_unchecked(sys, ord, matching_pids, k + 1,
                (all_processes \o <<metrics_collect_process_info(sys, pid)>>)
                    \o metrics_infos(sys, children.child_pids),
                children.seen_pids)

\* the `for pid in &matching_pids` loop of the Name arm, from its k-th
\* element on: yields all_processes
RECURSIVE metrics_name_loop(_, _, _, _, _, _)
metrics_name_loop(sys, ord, matching_pids, k, all_processes, seen_pids) ==
    IF k > Len(matching_pids) THEN all_processes
    ELSE
        LET pid == matching_pids[k]
        IN  IF pid \notin seen_pids
            THEN
                LET seen1 == seen_pids \cup {pid}
                    children == collect_child_pids(sys, ord, 1, <<pid>>, seen1, <<>>)
                IN  metrics_name_loop(sys, ord, matching_pids, k + 1,
                        (all_processes \o <<metrics_collect_process_info(sys, pid)>>)
                            \o metrics_infos(sys, children.child_pids),
                        children.seen_pids)
            ELSE metrics_name_loop(sys, ord, matching_pids, k + 1,
                                   all_processes, seen_pids)

\* ProcessMonitor::collect_processes (metrics/process/monitor.rs): every
\* member is pushed, threads are counted as well
metrics_collect_processes(sys, ord, identifier) ==
    IF identifier.kind = "Pid" THEN
        IF identifier.pid \in Present(sys) THEN
            LET pid == identifier.pid
                children == collect_child_pids(sys, ord, 1, <<pid>>, {pid}, <<>>)
                all_processes == <<metrics_collect_process_info(sys, pid)>>
                                    \o metrics_infos(sys, children.child_pids)
            IN  Some(all_processes, Len(SelectSeq(all_processes, IsThread)))
        ELSE None
    ELSE
        LET matching_pids ==
                SelectSeq(ord, LAMBDA pid : sys[pid].name = identifier.name)
            all_processes ==
                metrics_name_loop(sys, ord, matching_pids, 1, <<>>, {})
        IN  IF matching_pids = <<>> THEN None
            ELSE Some(all_processes, Len(SelectSeq(all_processes, IsThread)))

\* --------------------------------------------------- process/monitor.rs
\* ProcessMonitor::collect_process_info (process/monitor.rs)
collect_process_info(sys, pid) ==
    LET is_thread == sys[pid].thread_kind
    IN  [name |-> IF is_thread THEN sys[pid].name \o " (thread)" ELSE sys[pid].name,
         pid |-> pid,
         parent_pid |-> sys[pid].parent,
         cpu_usage |-> sys[pid].cpu_usage,
         memory_mb |-> IF is_thread THEN 0 ELSE (sys[pid].memory \div 1024) \div 1024,
         is_thread |-> is_thread]

infos(sys, pids) == [k \in 1..Len(pids) |-> collect_process_info(sys, pids[k])]

\* collect_processes pushing a thread to all_processes as well as counting it
collect_processes_with_threads(sys, ord, identifier) ==
    IF identifier.kind = "Pid" THEN
        IF identifier.pid \in Present(sys) THEN
            LET pid == identifier.pid
                children == collect_child_pids(sys, ord, 1, <<pid>>, {pid}, <<>>)
                visited == infos(sys, <<pid>> \o children.child_pids)
            IN  Some(visited, Len(SelectSeq(visited, IsThread)))
        ELSE None
    ELSE
        LET parent_pids ==
                SelectSeq(ord, LAMBDA pid : sys[pid].name = identifier.name)
            children == collect_child_pids(sys, ord, 1, parent_pids,
                                           Range(parent_pids), <<>>)
            visited == infos(sys, parent_pids \o children.child_pids)
        IN  IF parent_pids = <<>> THEN None
            ELSE Some(visited, Len(SelectSeq(visited, IsThread)))

\* ProcessMonitor::collect_processes (process/monitor.rs): a thread is
\* counted in thread_count and not pushed to all_processes
collect_processes(sys, ord, identifier) ==
    IF identifier.kind = "Pid" THEN
        IF identifier.pid \in Present(sys) THEN
            LET pid == identifier.pid
                children == collect_child_pids(sys, ord, 1, <<pid>>, {pid}, <<>>)
                visited == infos(sys, <<pid>> \o children.child_pids)
            IN  Some(SelectSeq(visited, NotThread), Len(SelectSeq(visited, IsThread)))
        ELSE None
    ELSE
        LET parent_pids ==
                SelectSeq(ord, LAMBDA pid : sys[pid].name = identifier.name)
            children == collect_child_pids(sys, ord, 1, parent_pids,
                                           Range(parent_pids), <<>>)
            visited == infos(sys, parent_pids \o children.child_pids)
        IN  IF parent_pids = <<>> THEN None
            ELSE Some(SelectSeq(visited, NotThread), Len(SelectSeq(visited, IsThread)))


\* ProcessMonitor::calculate_stats (process/monitor.rs): fold of the sums
RECURSIVE calculate_stats(_)
calculate_stats(processes) ==
    IF processes = <<>> THEN <<0, 0>>
    ELSE LET rest == calculate_stats(SubSeq(processes, 1, Len(processes) - 1))
             p == processes[Len(processes)]
         IN  <<rest[1] + p.cpu_usage, rest[2] + p.memory_mb>>

\* ProcessMonitor::get_basic_stats (process/monitor.rs)
get_basic_stats(sys, ord, identifier) ==
    LET collected == collect_processes(sys, ord, identifier)
        totals == calculate_stats(collected.processes)
    IN  IF ~collected.some THEN None
        ELSE [some |-> TRUE,
              current_cpu |-> totals[1],
              avg_cpu |-> totals[1],
              peak_cpu |-> totals[1],
              memory_mb |-> totals[2],
              peak_memory_mb |-> totals[2],
              processes |-> collected.processes,
              thread_count |-> collected.thread_count]

\* ------------------------------------------------ snapshot and monitor steps
Names == {"a", "b"}
MiB == 1024 * 1024

\* System::refresh_all finds a new process
Spawn(pid, parent, name, thread_kind, cpu_usage, memory) ==
    /\ query = NoQuery
    /\ ~system[pid].present
    /\ system' = [system EXCEPT
                    ![pid] = Process(parent, name, thread_kind, cpu_usage, memory)]
    /\ query' = NoQuery

\* System::refresh_all finds a process gone; its children keep its pid as parent
Exit(pid) ==
    /\ query = NoQuery
    /\ system[pid].present
    /\ system' = [system EXCEPT ![pid] = NoProc]
    /\ query' = NoQuery

\* a call of collect_processes of metrics/process/monitor.rs, the process
\* table being enumerated in any order
ResolveMetrics(identifier) ==
    /\ query = NoQuery
    /\ \E ord \in Orders(system) :
         query' = [op |-> "metrics_collect_processes", identifier |-> identifier,
                   result |-> metrics_collect_processes(system, ord, identifier)]
    /\ UNCHANGED system

\* a call of collect_processes of process/monitor.rs
ResolveProcess(identifier) ==
    /\ query = NoQuery
    /\ \E ord \in Orders(system) :
         query' = [op |-> "collect_processes", identifier |-> identifier,
                   result |-> collect_processes(system, ord, identifier)]
    /\ UNCHANGED system

\* a call of get_basic_stats of process/monitor.rs
GetBasicStats(identifier) ==
    /\ query = NoQuery
    /\ \E ord \in Orders(system) :
         query' = [op |-> "get_basic_stats", identifier |-> identifier,
                   result |-> get_basic_stats(system, ord, identifier)]
    /\ UNCHANGED system

\* the caller is done with the returned value
Return ==
    /\ query # NoQuery
    /\ query' = NoQuery
    /\ UNCHANGED system

InitMon ==
    /\ system = [p \in Pids |-> NoProc]
    /\ query = NoQuery

\* ------------------------------------- collect_child_pids, step by step
\* The recursion of collect_child_pids as a call stack.  A frame is one
\* activation: its parent_pids argument, the index i of the next entry of
\* system.processes() its loop examines, and its local child_pids.  seen_pids
\* is the one set every activation shares through &mut.  The table is
\* enumerated in pid order: any other order is this one with the pids
\* renamed, and the walk starts from every parent relation and seed set.
NoWalk == [pc |-> "idle", stack |-> <<>>, seen_pids |-> {}, seeds |-> {},
           result |-> <<>>]
IdleWalk == walk = NoWalk

table == [k \in 1..MaxPid |-> k]

Frame(parent_pids, i, child_pids) ==
    [parent_pids |-> parent_pids, i |-> i, child_pids |-> child_pids]

top == walk.stack[Len(walk.stack)]

\* the test of the loop body on the entry the top frame is at
is_new_child(pid) ==
    /\ pid \notin walk.seen_pids
    /\ system[pid].parent # NoParent
    /\ system[pid].parent \in Range(top.parent_pids)

\* the call made without the callers' seen_pids.insert(*pid)
WalkStartUnseen(seeds) ==
    /\ walk.pc = "idle"
    /\ walk' = [pc |-> "run",
                stack |-> <<Frame(seeds, 1, <<>>)>>,
                seen_pids |-> {},
                seeds |-> Range(seeds),
                result |-> <<>>]
    /\ UNCHANGED <<system, query>>

\* collect_processes calls collect_child_pids(&seeds, &mut seen_pids), having
\* inserted every seed into seen_pids
WalkStart(seeds) ==
    /\ walk.pc = "idle"
    /\ walk' = [pc |-> "run",
                stack |-> <<Frame(seeds, 1, <<>>)>>,
                seen_pids |-> Range(seeds),
                seeds |-> Range(seeds),
                result |-> <<>>]
    /\ UNCHANGED <<system, query>>

\* loop body, test true: insert, push, and call collect_child_pids(&[pid], ..)
WalkCall ==
    /\ walk.pc = "run"
    /\ top.i <= Len(table)
    /\ is_new_child(table[top.i])
    /\ LET pid == table[top.i]
           n == Len(walk.stack)
       IN  walk' = [walk EXCEPT
                      !.seen_pids = @ \cup {pid},
                      !.stack = Append([@ EXCEPT ![n].child_pids = Append(@, pid)],
                                       Frame(<<pid>>, 1, <<>>))]
    /\ UNCHANGED <<system, query>>

\* loop body, test false: next entry
WalkSkip ==
    /\ walk.pc = "run"
    /\ top.i <= Len(table)
    /\ ~is_new_child(table[top.i])
    /\ walk' = [walk EXCEPT !.stack[Len(walk.stack)].i = @ + 1]
    /\ UNCHANGED <<system, query>>

\* loop over: return child_pids; the caller extends its own and moves on
WalkReturn ==
    /\ walk.pc = "run"
    /\ top.i > Len(table)
    /\ LET n == Len(walk.stack)
       IN  IF n = 1
           THEN walk' = [walk EXCEPT !.pc = "done", !.stack = <<>>,
                                     !.result = top.child_pids]
           ELSE walk' = [walk EXCEPT
                           !.stack = [SubSeq(@, 1, n - 1) EXCEPT
                                        ![n - 1].child_pids = @ \o top.child_pids,
                                        ![n - 1].i = @ + 1]]
    /\ UNCHANGED <<system, query>>

\* every snapshot of MaxPid processes, cycles and self-parents included
InitWalk ==
    /\ system \in [Pids -> {Process(parent, "a", FALSE, 1, MiB) :
                              parent \in {NoParent} \cup Pids}]
    /\ query = NoQuery
    /\ IdleWalk

\* the seed lists: one pid (Pid arm), or several distinct ones (Name arm)
SeedLists ==
    {SelectSeq(table, LAMBDA pid : pid \in S) : S \in (SUBSET Pids) \ {{}}}

NextWalk ==
    \/ \E seeds \in SeedLists : WalkStart(seeds) /\ UNCHANGED <<bufVars, appVars, metVars>>
    \/ WalkCall /\ UNCHANGED <<bufVars, appVars, metVars>>
    \/ WalkSkip /\ UNCHANGED <<bufVars, appVars, metVars>>
    \/ WalkReturn /\ UNCHANGED <<bufVars, appVars, metVars>>

\* the code runs to completion: no step of it waits for anything
StartWalk == InitWalk /\ IdleBuf /\ IdleApp /\ IdleMetrics

SpecWalk ==
    /\ StartWalk
    /\ [][NextWalk]_vars
    /\ WF_vars(NextWalk)

\* ---------------------------------------------- specification: resolver
\* Pid identifiers: names play no part, every process is named "a"
NextPid ==
    \/ \E pid \in Pids, parent \in {NoParent} \cup Pids :
         Spawn(pid, parent, "a", FALSE, 1, MiB)
    \/ \E pid \in Pids : Exit(pid)
    \/ \E pid \in Pids : ResolveMetrics(IdPid(pid))
    \/ Return

\* Name identifiers: the name looked for is "a", among processes named "a" or "b"
NextName ==
    \/ \E pid \in Pids, parent \in {NoParent} \cup Pids, name \in Names :
         Spawn(pid, parent, name, FALSE, 1, MiB)
    \/ \E pid \in Pids : Exit(pid)
    \/ ResolveMetrics(IdName("a"))
    \/ ResolveProcess(IdName("a"))
    \/ Return

\* Threads and loads: a process is spawned under no parent or under a lower
\* pid, as a process or as a thread, with one of two CPU and memory loads
Loads == {<<1, 2>>, <<2, 1>>}

NextStats ==
    \/ \E pid \in Pids :
         \E parent \in {NoParent} \cup 1..(pid - 1),
            thread_kind \in BOOLEAN, load \in Loads :
           Spawn(pid, parent, "a", thread_kind, load[1], load[2] * MiB)
    \/ \E pid \in Pids : Exit(pid)
    \/ \E pid \in Pids : GetBasicStats(IdPid(pid))
    \/ GetBasicStats(IdName("a"))
    \/ Return

\* Threads: as NextStats with a single load, for collect_processes itself
NextThreads ==
    \/ \E pid \in Pids :
         \E parent \in {NoParent} \cup 1..(pid - 1), thread_kind \in BOOLEAN :
           Spawn(pid, parent, "a", thread_kind, 1, MiB)
    \/ \E pid \in Pids : Exit(pid)
    \/ \E pid \in Pids : ResolveProcess(IdPid(pid))
    \/ ResolveProcess(IdName("a"))
    \/ Return

StartBuf == InitBuf /\ InitMon /\ IdleWalk /\ IdleApp /\ IdleMetrics

\* an empty process table, nothing called yet
StartMon == InitMon /\ IdleBuf /\ IdleWalk /\ IdleApp /\ IdleMetrics

SpecBuf == StartBuf /\ [][NextBuf /\ UNCHANGED <<monVars, walk, appVars, metVars>>]_vars

SpecPid == StartMon /\ [][NextPid /\ UNCHANGED <<bufVars, walk, appVars, metVars>>]_vars

SpecName == StartMon /\ [][NextName /\ UNCHANGED <<bufVars, walk, appVars, metVars>>]_vars

SpecStats ==
    StartMon /\ [][NextStats /\ UNCHANGED <<bufVars, walk, appVars, metVars>>]_vars

SpecThreads ==
    StartMon /\ [][NextThreads /\ UNCHANGED <<bufVars, walk, appVars, metVars>>]_vars

\* the pids of a member list, in list order
PidsOf(processes) == [k \in 1..Len(processes) |-> processes[k].pid]

\* S together with every process of the snapshot that has an ancestor in S
\* under the parent relation
RECURSIVE Family(_, _)
Family(sys, S) ==
    LET T == S \cup {p \in Present(sys) : sys[p].parent \in S}
    IN  IF T = S THEN S ELSE Family(sys, T)


\* --------------------------------------------------------- claims: buffer
\* C1: after any pushes, max_value() equals the maximum of the retained
\* window (the last min(n, capacity) pushed values), so it drops once the
\* largest value has been evicted.
C1_PeakIsWindowMax == max_value(buf) = SeqMax(window)

\* C2: the running sum is the sum of the last min(n, capacity) pushed values
\* and average() is that sum over min(n, capacity); with no pushes it is 0.
C2_SumAndAverage ==
    LET n == Min2(Len(pushed), capacity)
        a == average(buf)
    IN  /\ buf.sum = SeqSum(window)
        /\ buf.len = n
        /\ a.den > 0
        /\ IF n = 0 THEN a.num = 0
           ELSE a.num * n = SeqSum(window) * a.den

\* C2 witness: values have been evicted from a window with a non-zero sum
C2_Witness ==
    /\ Len(pushed) > capacity
    /\ SeqSum(pushed) > SeqSum(window)
    /\ SeqSum(window) > 0

\* C3: after capacity + k pushes, as_slice() has length capacity and is the
\* last capacity pushed values, oldest first.
C3_FullSliceIsWindow ==
    Len(pushed) >= capacity =>
        /\ Len(as_slice(buf)) = capacity
        /\ as_slice(buf) = window

\* C3 witness: the buffer has wrapped to a position other than 0 and holds
\* values in strictly increasing push order
C3_Witness ==
    /\ capacity >= 2
    /\ Len(pushed) > capacity
    /\ buf.position # 0
    /\ \A i \in 1..(Len(window) - 1) : window[i] < window[i + 1]

\* C4: for any number n of pushes, also n < capacity, as_slice() has length
\* min(n, capacity) and holds only pushed values, oldest to newest.
C4_HistoryLenIsCount ==
    /\ Len(as_slice(buf)) = Min2(Len(pushed), capacity)
    /\ as_slice(buf) = window

\* C5: last_value() is the most recently pushed value, also when the write
\* position has wrapped to 0, and 0 when nothing was pushed.
C5_LastValue ==
    last_value(buf) = IF pushed = <<>> THEN 0 ELSE pushed[Len(pushed)]

\* C5 witness: the write position has wrapped to 0 after a non-zero push
\* that differs from the oldest retained value
C5_Witness ==
    /\ pushed # <<>>
    /\ buf.position = 0
    /\ pushed[Len(pushed)] # 0
    /\ pushed[Len(pushed)] # buf.data[1]


\* ------------------------------------------------------- claims: resolver
\* C6: resolving Pid(p) gives None when p is not in the snapshot, and
\* otherwise exactly p and every transitive descendant of p, nothing else.
C6_PidFamily ==
    (query.op = "metrics_collect_processes" /\ query.identifier.kind = "Pid") =>
        IF query.identifier.pid \in Present(system)
        THEN /\ query.result.some
             /\ Range(PidsOf(query.result.processes))
                    = Family(system, {query.identifier.pid})
        ELSE query.result = None

\* C6 witness: a resolved pid with a child and, under it, a grandchild
C6_Witness ==
    /\ query.op = "metrics_collect_processes"
    /\ query.identifier.kind = "Pid"
    /\ query.result.some
    /\ \E c, g \in Range(PidsOf(query.result.processes)) :
         /\ system[c].parent = query.identifier.pid
         /\ system[g].parent = c
         /\ Cardinality({query.identifier.pid, c, g}) = 3

RECURSIVE Gathered(_, _)
Gathered(stack, k) ==
    IF k > Len(stack) THEN <<>> ELSE stack[k].child_pids \o Gathered(stack, k + 1)

\* C8: collect_child_pids terminates on every finite snapshot, cycles and
\* self-parents included, and never yields a pid twice nor a seed.
C8_WalkTerminates ==
    /\ [](/\ NoDup(Gathered(walk.stack, 1) \o walk.result)
          /\ Range(Gathered(walk.stack, 1) \o walk.result) \cap walk.seeds = {}
          /\ Len(walk.stack) <= MaxPid + 1)
    /\ <>(walk.pc = "done")

\* C8 witness: the call returned on a snapshot where the seed lies on a cycle
\* through two returned pids
C8_Witness ==
    /\ walk.pc = "done"
    /\ Len(walk.result) >= 2
    /\ \E s \in walk.seeds, c \in Range(walk.result) :
         /\ system[c].parent = s
         /\ system[s].parent \in Range(walk.result) \ {c}


\* the pids an identifier names in the snapshot
Seeds(sys, identifier) ==
    IF identifier.kind = "Pid" THEN {identifier.pid} \cap Present(sys)
    ELSE {p \in Present(sys) : sys[p].name = identifier.name}

RECURSIVE SumOver(_, _)
SumOver(S, f) ==
    IF S = {} THEN 0
    ELSE LET x == CHOOSE y \in S : TRUE IN f[x] + SumOver(S \ {x}, f)

\* C9: collect_processes returns None or Some with at least one member in its
\* list, also when every matching entry is a thread.
C9_NeverEmptyList ==
    (query.op = "collect_processes" /\ query.result.some) =>
        Len(query.result.processes) >= 1

\* C10: in get_basic_stats a thread member adds nothing to current_cpu,
\* memory_mb or the process list whatever its values, and each thread member
\* adds exactly one to thread_count.
C10_ThreadsExcluded ==
    (query.op = "get_basic_stats" /\ query.result.some) =>
        LET members == Family(system, Seeds(system, query.identifier))
            threads == {p \in members : system[p].thread_kind}
            listed == PidsOf(query.result.processes)
        IN  /\ Range(listed) = members \ threads
            /\ NoDup(listed)
            /\ query.result.current_cpu
                 = SumOver(members \ threads, [p \in Pids |-> system[p].cpu_usage])
            /\ query.result.memory_mb * MiB
                 = SumOver(members \ threads, [p \in Pids |-> system[p].memory])
            /\ query.result.thread_count = Cardinality(threads)

\* C10 witness: stats of a group with two thread members and a process member
C10_Witness ==
    /\ query.op = "get_basic_stats"
    /\ query.result.some
    /\ query.result.thread_count >= 2
    /\ Len(query.result.processes) >= 1
    /\ \E p \in Present(system) :
         system[p].thread_kind /\ system[p].memory > 0 /\ system[p].cpu_usage > 0


\* ------------------------------------------ ProcessHistory (process/history.rs)
MaxAppPid == 2
MaxTime == 2

\* a HashMap with no entry
EmptyMap == [p \in {} |-> NotBuilt]

ProcessMetrics_new(size) ==
    [cpu |-> CircularBuffer_new(size), memory |-> CircularBuffer_new(size)]

ProcessHistory_new(max_points) ==
    [histories |-> <<>>,
     child_histories |-> EmptyMap,
     history_max_points |-> max_points]

\* resize_with(process_idx + 1, ..): new entries are built with the current
\* history_max_points, existing ones are left as they are
ensure_process_exists(h, process_idx) ==
    IF process_idx >= Len(h.histories) THEN
        [h EXCEPT !.histories =
            h.histories \o [k \in 1..(process_idx + 1 - Len(h.histories)) |->
                              ProcessMetrics_new(h.history_max_points)]]
    ELSE h

update_process_cpu(h, process_idx, cpu_usage) ==
    LET e == ensure_process_exists(h, process_idx)
    IN  [e EXCEPT !.histories[process_idx + 1].cpu = push(@, cpu_usage)]

update_memory(h, process_idx, memory_mb) ==
    LET e == ensure_process_exists(h, process_idx)
    IN  [e EXCEPT !.histories[process_idx + 1].memory = push(@, memory_mb)]

\* the entry built anew on every call, whether the pid is stored or not
child_entry_fresh(h, pid) == ProcessMetrics_new(h.history_max_points)

\* child_histories.entry(pid).or_insert_with(..)
child_entry(h, pid) ==
    IF pid \in DOMAIN h.child_histories THEN h.child_histories[pid]
    ELSE ProcessMetrics_new(h.history_max_points)

update_child_cpu(h, pid, cpu_usage) ==
    [h EXCEPT !.child_histories =
        [p \in DOMAIN h.child_histories \cup {pid} |->
            IF p = pid THEN [child_entry(h, pid) EXCEPT !.cpu = push(@, cpu_usage)]
            ELSE h.child_histories[p]]]

update_child_memory(h, pid, memory_mb) ==
    [h EXCEPT !.child_histories =
        [p \in DOMAIN h.child_histories \cup {pid} |->
            IF p = pid THEN [child_entry(h, pid) EXCEPT !.memory = push(@, memory_mb)]
            ELSE h.child_histories[p]]]

\* histories.get(idx).map(|h| h.get_cpu_history())
get_process_cpu_history(h, idx) ==
    IF idx < Len(h.histories)
    THEN [some |-> TRUE, value |-> as_slice(h.histories[idx + 1].cpu)]
    ELSE None

get_memory_history(h, idx) ==
    IF idx < Len(h.histories)
    THEN [some |-> TRUE, value |-> as_slice(h.histories[idx + 1].memory)]
    ELSE None

\* cleanup_child_histories retaining every entry
cleanup_child_histories_keep(h, active_pids) == h

\* cleanup_child_histories giving every active pid an entry
cleanup_child_histories_create(h, active_pids) ==
    [h EXCEPT !.child_histories =
        [p \in Range(active_pids) |-> child_entry(h, p)]]

\* child_histories.retain(|pid, _| active_pids.contains(pid))
cleanup_child_histories(h, active_pids) ==
    [h EXCEPT !.child_histories =
        [p \in {q \in DOMAIN h.child_histories : q \in Range(active_pids)} |->
            h.child_histories[p]]]

\* ------------------------------------------------- identifiers as strings
\* format!("pid:{}", pid) of ProcessIdentifier::to_string
PidText(pid) == "pid:" \o ToString(pid)

\* From<&str> for ProcessIdentifier, on the strings the watch lists hold: a
\* string that is "pid:" followed by a number is a Pid, any other a Name
identifier_from(s) ==
    IF \E pid \in Pids : s = PidText(pid)
    THEN IdPid(CHOOSE pid \in Pids : s = PidText(pid))
    ELSE IdName(s)


\* ------------------------------------ ProcessMonitor timing and statistics
\* should_update taking every call as due
should_update_always(monitor, t) == TRUE

\* last_update.elapsed() >= update_interval, the clock reading t
should_update(monitor, t) == t - monitor.last_update >= monitor.update_interval

\* calculate_history_stats: (max, sum / history.len()); the mean is kept as
\* the fraction num / den
calculate_history_stats(history) ==
    <<fold_max(history), [num |-> SeqSum(history), den |-> Len(history)]>>

\* a mean that is a plain value
Whole(v) == [num |-> v, den |-> 1]

get_process_stats(sys, ord, identifier, history, process_idx) ==
    LET collected == collect_processes(sys, ord, identifier)
    IN  IF ~collected.some THEN None
        ELSE
          LET totals == calculate_stats(collected.processes)
              cpu_history == get_process_cpu_history(history, process_idx)
              peak_avg == IF cpu_history.some
                          THEN calculate_history_stats(cpu_history.value)
                          ELSE <<totals[1], Whole(totals[1])>>
              memory_history == get_memory_history(history, process_idx)
              peak_memory == IF memory_history.some
                             THEN fold_max(memory_history.value)
                             ELSE totals[2]
          IN  [some |-> TRUE,
               current_cpu |-> totals[1],
               avg_cpu |-> peak_avg[2],
               peak_cpu |-> peak_avg[1],
               memory_mb |-> totals[2],
               peak_memory_mb |-> peak_memory,
               processes |-> collected.processes,
               thread_count |-> collected.thread_count]

\* ------------------------------------------- ProcessMonitorApp (app.rs)
\* the closure of update_metrics over stats.child_processes, the member list
\* of the statistics
RECURSIVE record_children(_, _, _)
record_children(h, processes, k) ==
    IF k > Len(processes) THEN h
    ELSE record_children(
             update_child_memory(
                 update_child_cpu(h, processes[k].pid, processes[k].cpu_usage),
                 processes[k].pid, processes[k].memory_mb),
             processes, k + 1)

\* the loop of update_metrics giving up at the first identifier not found
RECURSIVE update_histories_until_none(_, _, _, _, _, _)
update_histories_until_none(h, monitored, i, sys, ord, all_active_pids) ==
    IF i >= Len(monitored) THEN [history |-> h, all_active_pids |-> all_active_pids]
    ELSE
      LET stats == get_basic_stats(sys, ord, identifier_from(monitored[i + 1]))
      IN  IF stats.some THEN
              update_histories_until_none(
                  record_children(
                      update_memory(update_process_cpu(h, i, stats.current_cpu),
                                    i, stats.memory_mb),
                      stats.processes, 1),
                  monitored, i + 1, sys, ord,
                  all_active_pids \o PidsOf(stats.processes))
          ELSE [history |-> h, all_active_pids |-> all_active_pids]

\* the loop of update_metrics over monitored_processes from index i on
RECURSIVE update_histories(_, _, _, _, _, _)
update_histories(h, monitored, i, sys, ord, all_active_pids) ==
    IF i >= Len(monitored) THEN [history |-> h, all_active_pids |-> all_active_pids]
    ELSE
      LET stats == get_basic_stats(sys, ord, identifier_from(monitored[i + 1]))
      IN  IF stats.some THEN
              update_histories(
                  record_children(
                      update_memory(update_process_cpu(h, i, stats.current_cpu),
                                    i, stats.memory_mb),
                      stats.processes, 1),
                  monitored, i + 1, sys, ord,
                  all_active_pids \o PidsOf(stats.processes))
          ELSE update_histories(h, monitored, i + 1, sys, ord, all_active_pids)

\* the process tables a refresh of the application can find: pid p, when it
\* runs, is a process named "a" whose parent is pid p - 1 (pid 1 has none),
\* with CPU load p and p MiB of memory
AppPids == 1..MaxAppPid

AppSnapshots ==
    {[p \in Pids |-> IF p \in S THEN Process(p - 1, "a", FALSE, p, p * MiB)
                     ELSE NoProc] : S \in SUBSET AppPids}

\* the watch lists a stored application state can hold
WatchLists == {<<"a">>, <<PidText(1)>>, <<"a", PidText(1)>>, <<PidText(1), "a">>}

\* the positions of the refresh interval slider, in seconds
Intervals == {1, 2}

\* ProcessMonitorApp::new: a default application, or one loaded from storage
\* with its watch list and settings; monitor and history are never stored
InitApp ==
    /\ InitMon
    /\ now = 0
    /\ \E max_points \in 1..MaxCap, watch \in WatchLists, ms \in Intervals :
         app = [monitor |-> [last_update |-> 0, update_interval |-> 1],
                history |-> ProcessHistory_new(max_points),
                monitored_processes |-> watch,
                settings |-> [update_interval_ms |-> ms]]

\* time passes
Advance ==
    /\ query = NoQuery
    /\ now < MaxTime
    /\ now' = now + 1
    /\ UNCHANGED <<app, system, query>>

\* the Update Interval slider of the settings window
SetUpdateInterval(ms) ==
    /\ query = NoQuery
    /\ app.settings.update_interval_ms # ms
    /\ app' = [app EXCEPT !.settings.update_interval_ms = ms]
    /\ UNCHANGED <<now, system, query>>

\* ProcessMonitorApp::update_metrics, called once per frame, the refresh
\* finding one of the process tables of snapshots
UpdateMetricsOn(snapshots) ==
    /\ query = NoQuery
    /\ LET synced == [app EXCEPT
                        !.monitor.update_interval = app.settings.update_interval_ms]
       IN  IF ~should_update(synced.monitor, now) THEN
               /\ app' = synced
               /\ UNCHANGED system
           ELSE
               \E sys \in snapshots : \E ord \in Orders(sys) :
                 LET updated == update_histories(synced.history,
                                    synced.monitored_processes, 0, sys, ord, <<>>)
                 IN  /\ system' = sys
                     /\ app' = [synced EXCEPT
                                  !.monitor.last_update = now,
                                  !.history = cleanup_child_histories(
                                      updated.history, updated.all_active_pids)]
    /\ UNCHANGED <<now, query>>

UpdateMetrics == UpdateMetricsOn(AppSnapshots)

\* the central panel of ProcessMonitorApp::update showing watch entry idx
ViewProcess(idx) ==
    /\ query = NoQuery
    /\ idx < Len(app.monitored_processes)
    /\ \E ord \in Orders(system) :
         query' = [op |-> "get_process_stats", idx |-> idx,
                   result |-> get_process_stats(system, ord,
                                  identifier_from(app.monitored_processes[idx + 1]),
                                  app.history, idx)]
    /\ UNCHANGED <<app, now, system>>

NextApp ==
    \/ Advance
    \/ \E ms \in Intervals : SetUpdateInterval(ms)
    \/ UpdateMetrics
    \/ \E idx \in 0..1 : ViewProcess(idx)
    \/ Return /\ UNCHANGED appVars

StartApp == InitApp /\ IdleBuf /\ IdleWalk /\ IdleMetrics

SpecApp == StartApp /\ [][NextApp /\ UNCHANGED <<bufVars, walk, metVars>>]_vars


\* -------------------------------------------------- claims: application
\* the members of every watched identifier in a snapshot
WatchedMembers(sys, monitored) ==
    UNION {Family(sys, Seeds(sys, identifier_from(monitored[k]))) :
             k \in 1..Len(monitored)}

\* the step is a refresh tick of update_metrics
RefreshTick == app'.monitor.last_update # app.monitor.last_update

\* C12: a pid that has a per-member history before a refresh tick of
\* update_metrics and is a member of no watched identifier's resolved set on
\* that tick has no history entry once the tick completes.
C12_DepartedPidPruned ==
    [][RefreshTick =>
         \A pid \in DOMAIN app.history.child_histories :
           pid \notin WatchedMembers(system', app'.monitored_processes)
             => pid \notin DOMAIN app'.history.child_histories]_vars

\* C12 witness: "a" was recorded with pids 1 and 2 (total 3) and then with
\* pid 1 alone (total 1), and pid 2 has no history left
C12_Witness ==
    \E k \in 1..Len(app.history.histories) :
      /\ app.monitored_processes[k] = "a"
      /\ app.history.histories[k].cpu.len = 2
      /\ app.history.histories[k].cpu.sum = 4
      /\ last_value(app.history.histories[k].cpu) = 1
      /\ DOMAIN app.history.child_histories = {1}

C16_AverageOverRecorded ==
    (query.op = "get_process_stats" /\ query.result.some
       /\ query.idx < Len(app.history.histories)) =>
        LET cpu == app.history.histories[query.idx + 1].cpu
        IN  cpu.len >= 1 =>
              query.result.avg_cpu.num * cpu.len = cpu.sum * query.result.avg_cpu.den

\* C18: a step of the application refreshes the snapshot, changes a history
\* or moves last_update only when the time since last_update is at least the
\* configured interval, and it then sets last_update to the time of the
\* refresh; a call of update_metrics made earlier changes none of them.
C18_RefreshOnlyWhenDue ==
    [][(RefreshTick \/ app'.history # app.history \/ system' # system) =>
         /\ now - app.monitor.last_update >= app.settings.update_interval_ms
         /\ app'.monitor.last_update = now]_vars

\* C18 witness: a refresh at time 1 has recorded samples, and a later call,
\* one second after it, has taken up an interval of 2 without refreshing
C18_Witness ==
    /\ app.monitor.last_update = 1
    /\ app.monitor.update_interval = 2
    /\ now = 2
    /\ app.history.histories # <<>>


\* ------------------------- ProcessHistory of metrics/process/history.rs
MaxTicks == 2

\* ProcessGroup::new
metrics_ProcessGroup_new(size) ==
    [metrics |-> ProcessMetrics_new(size), child_histories |-> EmptyMap]

metrics_ProcessHistory_new(max_points) ==
    [histories |-> <<>>, history_max_points |-> max_points]

\* resize_with(process_idx + 1, ..): new groups are built with the current
\* history_max_points, existing ones are left as they are
metrics_ensure_process_exists(h, process_idx) ==
    IF process_idx >= Len(h.histories) THEN
        [h EXCEPT !.histories =
            h.histories \o [k \in 1..(process_idx + 1 - Len(h.histories)) |->
                              metrics_ProcessGroup_new(h.history_max_points)]]
    ELSE h

metrics_update_process_cpu(h, process_idx, cpu_usage) ==
    LET e == metrics_ensure_process_exists(h, process_idx)
    IN  [e EXCEPT !.histories[process_idx + 1].metrics.cpu = push(@, cpu_usage)]

metrics_update_memory(h, process_idx, memory_mb) ==
    LET e == metrics_ensure_process_exists(h, process_idx)
    IN  [e EXCEPT !.histories[process_idx + 1].metrics.memory = push(@, memory_mb)]

\* child_histories.entry(pid).or_insert_with(..) of a group
metrics_child_entry(h, group, pid) ==
    IF pid \in DOMAIN group.child_histories THEN group.child_histories[pid]
    ELSE ProcessMetrics_new(h.history_max_points)

metrics_update_child_cpu(h, parent_idx, pid, cpu_usage) ==
    LET e == metrics_ensure_process_exists(h, parent_idx)
        group == e.histories[parent_idx + 1]
    IN  [e EXCEPT !.histories[parent_idx + 1].child_histories =
            [p \in DOMAIN group.child_histories \cup {pid} |->
                IF p = pid
                THEN [metrics_child_entry(e, group, pid) EXCEPT !.cpu = push(@, cpu_usage)]
                ELSE group.child_histories[p]]]

metrics_update_child_memory(h, parent_idx, pid, memory_mb) ==
    LET e == metrics_ensure_process_exists(h, parent_idx)
        group == e.histories[parent_idx + 1]
    IN  [e EXCEPT !.histories[parent_idx + 1].child_histories =
            [p \in DOMAIN group.child_histories \cup {pid} |->
                IF p = pid
                THEN [metrics_child_entry(e, group, pid) EXCEPT !.memory = push(@, memory_mb)]
                ELSE group.child_histories[p]]]

metrics_get_process_cpu_history(h, idx) ==
    IF idx < Len(h.histories)
    THEN [some |-> TRUE, value |-> as_slice(h.histories[idx + 1].metrics.cpu)]
    ELSE None

metrics_get_memory_history(h, idx) ==
    IF idx < Len(h.histories)
    THEN [some |-> TRUE, value |-> as_slice(h.histories[idx + 1].metrics.memory)]
    ELSE None

\* ------------------------------------------ Metrics (metrics/mod.rs)
\* ProcessStats with every number zero and no member
ZeroStats ==
    [current_cpu |-> 0, avg_cpu |-> Whole(0), peak_cpu |-> 0, memory_mb |-> 0,
     peak_memory_mb |-> 0, processes |-> <<>>, thread_count |-> 0]

\* ProcessData::new
ProcessData_new(history_size, idx) ==
    [stats |-> ZeroStats,
     history |-> metrics_ProcessHistory_new(history_size),
     process_idx |-> idx]

\* identifier.starts_with("pid:") with a number after it, on the strings the
\* watch lists hold
is_pid_text(s) == \E pid \in Pids : s = PidText(pid)

\* the (process, pid) pairs the worker matches for an identifier: the one
\* entry of system.process(pid), or every entry whose name is the identifier,
\* in the order system.processes() yields them; no descendant is looked for
worker_matches(sys, ord, identifier) ==
    IF is_pid_text(identifier) THEN
        LET pid == CHOOSE p \in Pids : identifier = PidText(p)
        IN  IF pid \in Present(sys) THEN <<pid>> ELSE <<>>
    ELSE SelectSeq(ord, LAMBDA pid : sys[pid].name = identifier)

\* the ProcessInfo the worker builds for a matched entry
worker_process_info(sys, pid) ==
    LET is_thread == sys[pid].thread_kind
    IN  [name |-> sys[pid].name,
         pid |-> pid,
         parent_pid |-> sys[pid].parent,
         cpu_usage |-> sys[pid].cpu_usage,
         memory_mb |-> IF is_thread THEN 0 ELSE (sys[pid].memory \div 1024) \div 1024,
         is_thread |-> is_thread]

\* total_cpu and total_memory: sums over every matched entry (memory is a
\* multiple of 1 MiB in every snapshot, so the f32 division is exact)
RECURSIVE worker_totals(_, _)
worker_totals(sys, pids) ==
    IF pids = <<>> THEN <<0, 0>>
    ELSE LET rest == worker_totals(sys, Tail(pids))
         IN  <<sys[pids[1]].cpu_usage + rest[1],
               (sys[pids[1]].memory \div 1024) \div 1024 + rest[2]>>

\* the ProcessStats of one identifier with at least one matched entry
worker_stats(sys, pids) ==
    LET totals == worker_totals(sys, pids)
        process_infos == [k \in 1..Len(pids) |-> worker_process_info(sys, pids[k])]
    IN  [current_cpu |-> totals[1],
         avg_cpu |-> Whole(totals[1]),
         peak_cpu |-> totals[1],
         memory_mb |-> totals[2],
         peak_memory_mb |-> totals[2],
         processes |-> process_infos,
         thread_count |-> Len(SelectSeq(process_infos, IsThread))]

\* the updates map of one tick: an entry for every watched identifier with a
\* match, none for the others
compute_updates(sys, ord, processes_to_monitor) ==
    {[identifier |-> processes_to_monitor[idx + 1], idx |-> idx,
      stats |-> worker_stats(sys, worker_matches(sys, ord, processes_to_monitor[idx + 1]))] :
        idx \in {i \in 0..(Len(processes_to_monitor) - 1) :
                   worker_matches(sys, ord, processes_to_monitor[i + 1]) # <<>>}}

\* metrics.processes.entry(identifier).or_insert_with(..)
process_entry(processes, identifier, history_size, idx) ==
    IF identifier \in DOMAIN processes THEN processes[identifier]
    ELSE ProcessData_new(history_size, idx)

\* the loop over stats.processes of the publish phase
RECURSIVE publish_children(_, _, _, _)
publish_children(h, idx, processes, k) ==
    IF k > Len(processes) THEN h
    ELSE publish_children(
             metrics_update_child_memory(
                 metrics_update_child_cpu(h, idx, processes[k].pid,
                                          processes[k].cpu_usage),
                 idx, processes[k].pid, processes[k].memory_mb),
             idx, processes, k + 1)

\* the history pushes of the publish phase for one update
publish_history(process_data, update) ==
    [process_data EXCEPT !.history =
        publish_children(
            metrics_update_memory(
                metrics_update_process_cpu(process_data.history, update.idx,
                                           update.stats.current_cpu),
                update.idx, update.stats.memory_mb),
            update.idx, update.stats.processes, 1)]

\* the rest of the publish phase for one update: peak and mean are computed
\* from the history into process_data.stats, then "process_data.stats = stats"
\* replaces the whole record by the one computed before the lock was taken
publish_stats(process_data, update) ==
    LET cpu_history == metrics_get_process_cpu_history(process_data.history, update.idx)
        memory_history == metrics_get_memory_history(process_data.history, update.idx)
        with_cpu == IF cpu_history.some
                    THEN [process_data EXCEPT
                            !.stats.peak_cpu = fold_max(cpu_history.value),
                            !.stats.avg_cpu = [num |-> SeqSum(cpu_history.value),
                                               den |-> Len(cpu_history.value)]]
                    ELSE process_data
        with_memory == IF memory_history.some
                       THEN [with_cpu EXCEPT
                               !.stats.peak_memory_mb = fold_max(memory_history.value)]
                       ELSE with_cpu
    IN  [with_memory EXCEPT !.stats = update.stats, !.process_idx = update.idx]

\* a HashMap with the entry of key set to value
Insert(map, key, value) ==
    [k \in DOMAIN map \cup {key} |-> IF k = key THEN value ELSE map[k]]

\* a HashMap without the entry of key
Remove(map, key) == [k \in DOMAIN map \ {key} |-> map[k]]


\* ------------------------------------- the worker thread and the UI thread
\* no update is being applied
NoUpdate == [identifier |-> ""]

\* the RwLock around Metrics is free: no write guard, no read guard
LockFree == metrics.writer = "none" /\ metrics.readers = 0

\* Metrics::new(update_interval_ms, history_size): an empty Metrics, and the
\* worker thread at the top of its loop with its locals not yet assigned
InitMetrics(sizes) ==
    /\ InitMon
    /\ \E history_size \in sizes :
         metrics = [processes |-> EmptyMap,
                    selected_processes |-> <<>>,
                    update_interval |-> 1,
                    history_size |-> history_size,
                    writer |-> "none",
                    readers |-> 0]
    /\ worker = [pc |-> "refresh", tick |-> 0, published |-> 0,
                 update_interval |-> 0, processes_to_monitor |-> <<>>,
                 history_size |-> 0, updates |-> {}, current |-> NoUpdate,
                 slept |-> 0]

\* system.refresh_all() at the top of the loop: tick number tick + 1 begins
WorkerRefresh(sys) ==
    /\ worker.pc = "refresh"
    /\ worker.tick < MaxTicks
    /\ system' = sys
    /\ worker' = [worker EXCEPT !.pc = "read", !.tick = @ + 1]
    /\ UNCHANGED <<metrics, query>>

\* the configuration read under one read guard
WorkerReadConfig ==
    /\ worker.pc = "read"
    /\ metrics.writer = "none"
    /\ worker' = [worker EXCEPT
                    !.pc = "compute",
                    !.update_interval = metrics.update_interval,
                    !.processes_to_monitor = metrics.selected_processes,
                    !.history_size = metrics.history_size]
    /\ UNCHANGED <<metrics, system, query>>

\* the updates are prepared with no lock held
WorkerCompute ==
    /\ worker.pc = "compute"
    /\ \E ord \in Orders(system) :
         worker' = [worker EXCEPT
                      !.pc = "lock",
                      !.updates = compute_updates(system, ord,
                                                  worker.processes_to_monitor)]
    /\ UNCHANGED <<metrics, system, query>>

\* the write guard taken although a read guard is held
WorkerLockWriteNoWait ==
    /\ worker.pc = "lock"
    /\ metrics.writer = "none"
    /\ metrics' = [metrics EXCEPT !.writer = "worker"]
    /\ worker' = [worker EXCEPT !.pc = "publish"]
    /\ UNCHANGED <<system, query>>

\* try_write in place of write: with the lock busy the tick's updates are
\* dropped and the loop goes round
WorkerLockWriteOrSkip ==
    /\ worker.pc = "lock"
    /\ IF LockFree
       THEN /\ metrics' = [metrics EXCEPT !.writer = "worker"]
            /\ worker' = [worker EXCEPT !.pc = "publish"]
       ELSE /\ worker' = [worker EXCEPT !.pc = "refresh", !.updates = {}]
            /\ UNCHANGED metrics
    /\ UNCHANGED <<system, query>>

\* metrics_clone.write(): waits until no guard is held
WorkerLockWrite ==
    /\ worker.pc = "lock"
    /\ LockFree
    /\ metrics' = [metrics EXCEPT !.writer = "worker"]
    /\ worker' = [worker EXCEPT !.pc = "publish"]
    /\ UNCHANGED <<system, query>>

\* the next update of the map, in whatever order the HashMap yields them: its
\* entry is found or inserted and the histories are pushed
WorkerPushHistory ==
    /\ worker.pc = "publish"
    /\ worker.current = NoUpdate
    /\ \E update \in worker.updates :
         /\ metrics' = [metrics EXCEPT !.processes =
                          Insert(metrics.processes, update.identifier,
                                 publish_history(
                                     process_entry(metrics.processes, update.identifier,
                                                   worker.history_size, update.idx),
                                     update))]
         /\ worker' = [worker EXCEPT !.updates = @ \ {update}, !.current = update]
    /\ UNCHANGED <<system, query>>

\* the statistics of the update being applied are stored
WorkerReplaceStats ==
    /\ worker.pc = "publish"
    /\ worker.current # NoUpdate
    /\ metrics' = [metrics EXCEPT !.processes[worker.current.identifier] =
                     publish_stats(@, worker.current)]
    /\ worker' = [worker EXCEPT !.current = NoUpdate]
    /\ UNCHANGED <<system, query>>

\* the sleep taken from the shared update_interval as it is when the tick
\* ends
WorkerUnlockSleepShared ==
    /\ worker.pc = "publish"
    /\ worker.current = NoUpdate
    /\ worker.updates = {}
    /\ metrics' = [metrics EXCEPT !.writer = "none"]
    /\ worker' = [worker EXCEPT !.pc = "refresh", !.published = @ + 1,
                                !.slept = metrics.update_interval]
    /\ UNCHANGED <<system, query>>

\* the write guard is dropped and the thread sleeps for the update_interval
\* it read at the start of the tick; slept is the length of that sleep
WorkerUnlock ==
    /\ worker.pc = "publish"
    /\ worker.current = NoUpdate
    /\ worker.updates = {}
    /\ metrics' = [metrics EXCEPT !.writer = "none"]
    /\ worker' = [worker EXCEPT !.pc = "refresh", !.published = @ + 1,
                                !.slept = worker.update_interval]
    /\ UNCHANGED <<system, query>>

\* add_selected_process pushing without the contains test
add_selected_process_push(selected_processes, identifier) ==
    Append(selected_processes, identifier)

\* Metrics::add_selected_process, on the list
add_selected_process(selected_processes, identifier) ==
    IF identifier \notin Range(selected_processes)
    THEN Append(selected_processes, identifier)
    ELSE selected_processes

\* Metrics::remove_selected_process: the first position holding identifier
\* is removed from the list, and the identifier's entry from the map
remove_selected_process(m, identifier) ==
    LET found == {k \in 1..Len(m.selected_processes) :
                    m.selected_processes[k] = identifier}
    IN  IF found # {}
        THEN LET pos == CHOOSE k \in found : \A n \in found : k <= n
             IN  [m EXCEPT
                    !.selected_processes =
                        SubSeq(@, 1, pos - 1) \o SubSeq(@, pos + 1, Len(@)),
                    !.processes = Remove(@, identifier)]
        ELSE m

\* Metrics::add_selected_process under a write guard of the UI thread, for
\* an identifier the call has an effect on
AddSelectedProcess(identifier) ==
    /\ LockFree
    /\ add_selected_process(metrics.selected_processes, identifier)
         # metrics.selected_processes
    /\ metrics' = [metrics EXCEPT
                     !.selected_processes = add_selected_process(@, identifier)]
    /\ UNCHANGED <<worker, system, query>>

\* Metrics::remove_selected_process under a write guard of the UI thread
RemoveSelectedProcess(identifier) ==
    /\ LockFree
    /\ identifier \in Range(metrics.selected_processes)
    /\ metrics' = remove_selected_process(metrics, identifier)
    /\ UNCHANGED <<worker, system, query>>

\* the Update Interval slider: Metrics::set_update_interval under a write guard
SetMetricsInterval(ms) ==
    /\ LockFree
    /\ metrics.update_interval # ms
    /\ metrics' = [metrics EXCEPT !.update_interval = ms]
    /\ UNCHANGED <<worker, system, query>>

\* the History Length slider: the capacity of Metrics set under a write guard
SetHistoryLength(history_length) ==
    /\ LockFree
    /\ metrics.history_size # history_length
    /\ metrics' = [metrics EXCEPT !.history_size = history_length]
    /\ UNCHANGED <<worker, system, query>>

\* the UI thread takes a read guard to look at get_process_data
ReadLock ==
    /\ LockFree
    /\ metrics' = [metrics EXCEPT !.readers = 1]
    /\ UNCHANGED <<worker, system, query>>

\* the UI thread drops its read guard
ReadUnlock ==
    /\ metrics.readers = 1
    /\ metrics' = [metrics EXCEPT !.readers = 0]
    /\ UNCHANGED <<worker, system, query>>

\* the process tables a refresh of the worker can find: pid p, when it runs,
\* is a process or a thread named "a" with CPU load p and p MiB of memory
WorkerSnapshots ==
    {[p \in Pids |-> IF p \in DOMAIN kinds
                     THEN Process(p - 1, "a", kinds[p], p, p * MiB)
                     ELSE NoProc] :
       kinds \in UNION {[S -> BOOLEAN] : S \in SUBSET AppPids}}

\* the identifiers the UI thread selects
WatchStrings == {"a", PidText(1)}

\* the worker's arithmetic: the watch list grows, the capacity is changed
NextWorker ==
    \/ \E sys \in WorkerSnapshots : WorkerRefresh(sys)
    \/ WorkerReadConfig
    \/ WorkerCompute
    \/ WorkerLockWrite
    \/ WorkerPushHistory
    \/ WorkerReplaceStats
    \/ WorkerUnlock
    \/ \E identifier \in WatchStrings : AddSelectedProcess(identifier)
    \/ \E history_length \in 1..MaxCap : SetHistoryLength(history_length)

\* the process tables of the two-thread specification: no process, pid 1
\* alone, or every pid, none of them a thread
LockSnapshots ==
    {[p \in Pids |-> IF p \in S THEN Process(p - 1, "a", FALSE, p, p * MiB)
                     ELSE NoProc] : S \in {{}, {1}, AppPids}}

\* the two threads: every call of the UI thread against every step of the
\* worker
NextLock ==
    \/ \E sys \in LockSnapshots : WorkerRefresh(sys)
    \/ WorkerReadConfig
    \/ WorkerCompute
    \/ WorkerLockWrite
    \/ WorkerPushHistory
    \/ WorkerReplaceStats
    \/ WorkerUnlock
    \/ \E identifier \in WatchStrings : AddSelectedProcess(identifier)
    \/ \E identifier \in WatchStrings : RemoveSelectedProcess(identifier)
    \/ \E ms \in Intervals : SetMetricsInterval(ms)
    \/ ReadLock
    \/ ReadUnlock

StartWorker == InitMetrics(1..MaxCap) /\ IdleBuf /\ IdleWalk /\ IdleApp

StartLock == InitMetrics({MaxCap}) /\ IdleBuf /\ IdleWalk /\ IdleApp

SpecWorker ==
    StartWorker /\ [][NextWorker /\ UNCHANGED <<bufVars, walk, appVars>>]_vars

SpecLock ==
    StartLock /\ [][NextLock /\ UNCHANGED <<bufVars, walk, appVars>>]_vars


\* ------------------------------------------------------- claims: worker
\* the entries of a snapshot the worker's identifier names: the pid itself,
\* or every entry with that name
WorkerFound(sys, identifier) ==
    IF is_pid_text(identifier)
    THEN {p \in Present(sys) : identifier = PidText(p)}
    ELSE {p \in Present(sys) : sys[p].name = identifier}

\* the worker has published its last tick: system is the snapshot of that
\* tick, worker.processes_to_monitor and worker.history_size its configuration
TickDone == worker.pc = "refresh" /\ worker.tick >= 1

\* the aggregate histories a published entry was last pushed to
AggregateOf(process_data) ==
    process_data.history.histories[process_data.process_idx + 1].metrics

\* the samples a buffer retains, oldest first
Retained(b) == LastN(as_slice(b), b.len)

\* C11: the totals the worker computes for an identifier are sums over its
\* matched entries that are not threads; a thread entry adds one to
\* thread_count and nothing to current_cpu or memory_mb.
C11_TotalsSkipThreads ==
    \A update \in worker.updates :
      LET matched == WorkerFound(system, update.identifier)
          processes == {p \in matched : ~system[p].thread_kind}
      IN  /\ update.stats.current_cpu
               = SumOver(processes, [p \in Pids |-> system[p].cpu_usage])
          /\ update.stats.memory_mb * MiB
               = SumOver(processes, [p \in Pids |-> system[p].memory])
          /\ update.stats.thread_count = Cardinality(matched \ processes)

\* C14: once the worker has published a tick on which a watched identifier
\* matched no entry, the result published for that identifier has an empty
\* member list and a thread count of zero.
C14_NoMatchPublishesEmpty ==
    TickDone =>
      \A k \in 1..Len(worker.processes_to_monitor) :
        LET identifier == worker.processes_to_monitor[k]
        IN  (WorkerFound(system, identifier) = {}
               /\ identifier \in DOMAIN metrics.processes) =>
              /\ metrics.processes[identifier].stats.processes = <<>>
              /\ metrics.processes[identifier].stats.thread_count = 0

\* C15: once the worker has published a tick on which a watched identifier
\* was found, its published statistics have current_cpu and memory_mb equal
\* to the samples of this tick, peak_cpu equal to the maximum and avg_cpu to
\* the mean of the retained aggregate CPU samples, and peak_memory_mb equal
\* to the maximum of the retained aggregate memory samples.
C15_PublishedFromHistory ==
    TickDone =>
      \A k \in 1..Len(worker.processes_to_monitor) :
        LET identifier == worker.processes_to_monitor[k]
        IN  WorkerFound(system, identifier) # {} =>
              /\ identifier \in DOMAIN metrics.processes
              /\ LET stats == metrics.processes[identifier].stats
                     cpu == AggregateOf(metrics.processes[identifier]).cpu
                     memory == AggregateOf(metrics.processes[identifier]).memory
                 IN  /\ stats.current_cpu = last_value(cpu)
                     /\ stats.memory_mb = last_value(memory)
                     /\ stats.peak_cpu = SeqMax(Retained(cpu))
                     /\ stats.avg_cpu.num * Len(Retained(cpu))
                          = SeqSum(Retained(cpu)) * stats.avg_cpu.den
                     /\ stats.peak_memory_mb = SeqMax(Retained(memory))

\* C17: once the worker has published a tick, the aggregate and per-member
\* histories of every identifier found on that tick have the capacity that
\* was configured when the tick read its configuration.
C17_CapacityFollowsConfig ==
    TickDone =>
      \A k \in 1..Len(worker.processes_to_monitor) :
        LET identifier == worker.processes_to_monitor[k]
        IN  (WorkerFound(system, identifier) # {}
               /\ identifier \in DOMAIN metrics.processes) =>
              LET process_data == metrics.processes[identifier]
                  group == process_data.history.histories[process_data.process_idx + 1]
              IN  /\ Len(group.metrics.cpu.data) = worker.history_size
                  /\ Len(group.metrics.memory.data) = worker.history_size
                  /\ \A pid \in DOMAIN group.child_histories :
                       Len(group.child_histories[pid].cpu.data) = worker.history_size

\* C19: at most one tick of the worker is in flight whatever the UI thread
\* does: a tick reads the configuration and computes only when every earlier
\* tick has completed its publish.
C19_OneTickInFlight ==
    /\ worker.tick - worker.published \in {0, 1}
    /\ worker.pc = "refresh" => worker.published = worker.tick
    /\ worker.pc \in {"read", "compute", "lock", "publish"}
         => worker.published = worker.tick - 1

\* C19 witness: the second tick computes while the UI thread holds a read
\* guard and has changed the watch list since the tick read it
C19_Witness ==
    /\ worker.tick = 2
    /\ worker.pc = "compute"
    /\ metrics.readers = 1
    /\ metrics.selected_processes # worker.processes_to_monitor
    /\ metrics.processes # EmptyMap

\* C20: while a read guard is held no publish is in progress, and every
\* published entry is whole: its statistics are those of the tick whose
\* samples are the last ones in its histories.
C20_ReaderSeesWholeTick ==
    metrics.readers > 0 =>
      /\ worker.pc # "publish"
      /\ metrics.writer = "none"
      /\ \A identifier \in DOMAIN metrics.processes :
           LET process_data == metrics.processes[identifier]
           IN  /\ AggregateOf(process_data).cpu.len >= 1
               /\ last_value(AggregateOf(process_data).cpu)
                    = process_data.stats.current_cpu
               /\ last_value(AggregateOf(process_data).memory)
                    = process_data.stats.memory_mb

\* C20 witness: a read guard is held over the results of an earlier tick
\* while the worker waits for the write guard with new updates
C20_Witness ==
    /\ metrics.readers = 1
    /\ worker.pc = "lock"
    /\ worker.updates # {}
    /\ worker.published >= 1
    /\ metrics.processes # EmptyMap



\* ------------------------------------------- claims: removal and interval
\* C21: whenever the map can be read (no write guard is held), it holds no
\* entry for an identifier that is not in the watch list: after
\* remove_selected_process(x), get_process_data(x) is None until x is added
\* again.
C21_RemovedStaysRemoved ==
    metrics.writer = "none"
        => DOMAIN metrics.processes \subseteq Range(metrics.selected_processes)



\* C22: a tick uses the interval and the watch list that were read together
\* at its start. The worker's copies change only in the configuration read,
\* where both are taken from the shared Metrics in one step; the sleep that
\* ends the tick lasts for the worker's copy, whatever set_update_interval
\* has stored since; the next tick's configuration read picks the new value
\* up.
C22_IntervalFixedForTick ==
    [][/\ (\/ worker'.update_interval # worker.update_interval
           \/ worker'.processes_to_monitor # worker.processes_to_monitor)
          => /\ worker.pc = "read"
             /\ worker'.update_interval = metrics.update_interval
             /\ worker'.processes_to_monitor = metrics.selected_processes
       /\ worker.pc = "read" /\ worker'.pc # "read"
          => /\ worker'.update_interval = metrics.update_interval
             /\ worker'.processes_to_monitor = metrics.selected_processes
       /\ worker'.published # worker.published
          => worker'.slept = worker.update_interval]_vars

\* a tick is about to end after set_update_interval changed the interval
\* and the watch list changed while it ran
C22_Witness ==
    /\ worker.pc = "publish"
    /\ worker.updates = {}
    /\ worker.current = NoUpdate
    /\ worker.update_interval # metrics.update_interval
    /\ worker.processes_to_monitor # metrics.selected_processes



\* -------------------------------------- the Clear button (app.rs, history.rs)
\* clear_process resetting the aggregate pair and keeping child_histories
clear_process_aggregate_only(h, idx) ==
    IF idx < Len(h.histories)
    THEN [h EXCEPT !.histories[idx + 1] = ProcessMetrics_new(h.history_max_points)]
    ELSE h

\* ProcessHistory::clear_process (process/history.rs)
clear_process(h, idx) ==
    IF idx < Len(h.histories)
    THEN [h EXCEPT !.histories[idx + 1] = ProcessMetrics_new(h.history_max_points),
                   !.child_histories = EmptyMap]
    ELSE h

\* a default application or one loaded from storage: the watch list and
\* active_process_idx are stored, monitor and history are not
InitClear ==
    /\ InitMon
    /\ now = 0
    /\ \E max_points \in 1..MaxCap, watch \in WatchLists :
       \E active \in {None} \cup {[some |-> TRUE, value |-> i] :
                                  i \in 0..(Len(watch) - 1)} :
         app = [monitor |-> [last_update |-> 0, update_interval |-> 1],
                history |-> ProcessHistory_new(max_points),
                monitored_processes |-> watch,
                settings |-> [update_interval_ms |-> 1],
                active_process_idx |-> active]

\* a click on entry i of the process list
SelectProcess(i) ==
    /\ query = NoQuery
    /\ i < Len(app.monitored_processes)
    /\ app.active_process_idx # [some |-> TRUE, value |-> i]
    /\ app' = [app EXCEPT !.active_process_idx = [some |-> TRUE, value |-> i]]
    /\ UNCHANGED <<now, system, query>>

\* the Clear button of the top panel; query keeps the index and the
\* application as it was when the button was pressed
ClearProcess ==
    /\ query = NoQuery
    /\ app.active_process_idx.some
    /\ app' = [app EXCEPT
                 !.history = clear_process(@, app.active_process_idx.value)]
    /\ query' = [op |-> "clear_process",
                 idx |-> app.active_process_idx.value,
                 before |-> app]
    /\ UNCHANGED <<now, system>>

NextClear ==
    \/ Advance
    \/ UpdateMetrics
    \/ \E i \in 0..1 : SelectProcess(i)
    \/ ClearProcess
    \/ Return /\ UNCHANGED appVars

StartClear == InitClear /\ IdleBuf /\ IdleWalk /\ IdleMetrics

SpecClear == StartClear /\ [][NextClear /\ UNCHANGED <<bufVars, walk, metVars>>]_vars

\* C23: the Clear button on group i keeps the watch list; with i in range
\* group i's aggregate CPU and memory buffers are those of a new buffer
\* (count 0, sum 0, peak 0) and no member of group i has a per-member history
\* left; with i out of range the application is as it was.
C23_ClearResetsGroup ==
    query.op = "clear_process" =>
      LET i == query.idx
          old == query.before
      IN  /\ app.monitored_processes = old.monitored_processes
          /\ IF i < Len(old.history.histories)
             THEN /\ Len(app.history.histories) = Len(old.history.histories)
                  /\ \A b \in {app.history.histories[i + 1].cpu,
                               app.history.histories[i + 1].memory} :
                       /\ b = CircularBuffer_new(old.history.history_max_points)
                       /\ b.len = 0 /\ b.sum = 0 /\ b.peak_value = 0
                  /\ \A pid \in WatchedMembers(system,
                                    <<old.monitored_processes[i + 1]>>) :
                       pid \notin DOMAIN app.history.child_histories
             ELSE app = old

\* C23 witness: Clear pressed on a group that held two samples while its
\* members had histories of their own
C23_Witness ==
    /\ query.op = "clear_process"
    /\ query.idx < Len(query.before.history.histories)
    /\ query.before.history.histories[query.idx + 1].cpu.len = 2
    /\ \E pid \in DOMAIN query.before.history.child_histories :
         pid \in WatchedMembers(system,
                     <<query.before.monitored_processes[query.idx + 1]>>)



\* ------------------------------------------- claims: per-member histories
\* C24: on a refresh tick of update_metrics every pid with a per-member
\* history has received one sample from each watched identifier it is a
\* member of and nothing from the others: taken for any one identifier, its
\* history is the one it had before the tick with this tick's sample pushed
\* once.
C24_OneSamplePerIdentifier ==
    [][RefreshTick =>
         \A pid \in DOMAIN app'.history.child_histories :
           LET before == child_entry(app.history, pid)
           IN  /\ app'.history.child_histories[pid].cpu
                    = push(before.cpu, system'[pid].cpu_usage)
               /\ app'.history.child_histories[pid].memory
                    = push(before.memory, system'[pid].memory \div MiB)]_vars



\* C25: a refresh tick of update_metrics that finds the snapshot of the tick
\* before it records the totals of that tick again, and on every refresh
\* tick the history get_process_cpu_history returns for a watched identifier
\* that was found is one sample longer than before the tick, up to the
\* capacity.
C25_SameSnapshotSameTotals ==
    [][RefreshTick =>
         \A i \in 0..(Len(app.monitored_processes) - 1) :
           Seeds(system', identifier_from(app.monitored_processes[i + 1])) # {} =>
             LET before == get_process_cpu_history(app.history, i)
                 after == get_process_cpu_history(app'.history, i)
                 samples == IF before.some THEN Len(before.value) ELSE 0
             IN  /\ after.some
                 /\ Len(after.value)
                      = Min2(samples + 1, app.history.history_max_points)
                 /\ (system' = system /\ i < Len(app.history.histories)
                       /\ app.history.histories[i + 1].cpu.len >= 1)
                      => /\ last_value(app'.history.histories[i + 1].cpu)
                              = last_value(app.history.histories[i + 1].cpu)
                         /\ last_value(app'.history.histories[i + 1].memory)
                              = last_value(app.history.histories[i + 1].memory)]_vars



\* ---------------------------------------------- claims: resolver order
\* C26: the member sequence collect_processes of metrics/process/monitor.rs
\* returns for a snapshot and an identifier is the one it returns under
\* every order in which the process table can be enumerated.
C26_OrderFromSnapshotOnly ==
    (query.op = "metrics_collect_processes" /\ query.result.some) =>
        \A ord \in Orders(system) :
          metrics_collect_processes(system, ord, query.identifier).processes
            = query.result.processes



\* ------------------------------------------- claims: buffer bookkeeping
\* C28: before and after every push the count of valid samples is at most
\* the capacity and the write position is below the capacity; the push sets
\* the count to min(count + 1, capacity) and moves the write position on by
\* one modulo the capacity.
C28_CountAndPosition ==
    [][/\ buf.len <= capacity /\ buf.position < capacity
       /\ buf'.len <= capacity /\ buf'.position < capacity
       /\ Len(buf'.data) = capacity
       /\ buf'.len = Min2(buf.len + 1, capacity)
       /\ buf'.position = (buf.position + 1) % capacity]_vars

\* C28 witness: a full buffer of capacity 2 or more whose write position has
\* wrapped round to the first slot a second time
C28_Witness ==
    /\ capacity >= 2
    /\ buf.len = capacity
    /\ buf.position = 0
    /\ Len(pushed) = 2 * capacity



\* ------------------------------------------------ claims: member store
\* the lists of pids cleanup_child_histories can be handed
ActiveLists == {<<>>} \cup {<<p>> : p \in AppPids}
                 \cup {<<p, q>> : p \in AppPids, q \in AppPids}

\* C29: cleanup_child_histories(active_pids), applied to the history of the
\* application in any state, leaves exactly the stored pids that occur in
\* active_pids, each with the CPU and memory histories it had, creates no
\* entry and touches nothing else; with an empty active_pids no per-member
\* entry is left.
C29_CleanupKeepsActiveOnly ==
    \A active_pids \in ActiveLists :
      LET h == app.history
          cleaned == cleanup_child_histories(h, active_pids)
      IN  /\ DOMAIN cleaned.child_histories
               = DOMAIN h.child_histories \cap Range(active_pids)
          /\ \A pid \in DOMAIN cleaned.child_histories :
               cleaned.child_histories[pid] = h.child_histories[pid]
          /\ cleaned.histories = h.histories
          /\ cleaned.history_max_points = h.history_max_points
          /\ active_pids = <<>> => cleaned.child_histories = EmptyMap

\* C29 witness: the store holds histories for two pids, so that a cleanup
\* can keep one and drop the other
C29_Witness ==
    /\ Cardinality(DOMAIN app.history.child_histories) >= 2
    /\ \A pid \in DOMAIN app.history.child_histories :
         app.history.child_histories[pid].cpu.len >= 1



\* C30: update_child_cpu and update_child_memory, applied to the history of
\* the application in any state, push the sample to the pid's stored pair
\* or, when the pid has none, to a new pair of the store's capacity
\* history_max_points, and leave every other pid's pair alone; after every
\* tick of update_metrics each stored pid has as many CPU samples as memory
\* samples.
C30_LazyPairSameCounts ==
    LET h == app.history
        fresh == ProcessMetrics_new(h.history_max_points)
    IN  /\ \A pid \in AppPids, value \in 0..1 :
             LET old == IF pid \in DOMAIN h.child_histories
                        THEN h.child_histories[pid] ELSE fresh
                 with_cpu == update_child_cpu(h, pid, value).child_histories
                 with_memory == update_child_memory(h, pid, value).child_histories
             IN  /\ DOMAIN with_cpu = DOMAIN h.child_histories \cup {pid}
                 /\ DOMAIN with_memory = DOMAIN h.child_histories \cup {pid}
                 /\ with_cpu[pid] = [old EXCEPT !.cpu = push(old.cpu, value)]
                 /\ with_memory[pid] = [old EXCEPT !.memory = push(old.memory, value)]
                 /\ \A other \in DOMAIN h.child_histories \ {pid} :
                      /\ with_cpu[other] = h.child_histories[other]
                      /\ with_memory[other] = h.child_histories[other]
        /\ \A pid \in DOMAIN h.child_histories :
             /\ h.child_histories[pid].cpu.len = h.child_histories[pid].memory.len
             /\ Len(h.child_histories[pid].cpu.data) = h.history_max_points
             /\ Len(h.child_histories[pid].memory.data) = h.history_max_points

\* C30 witness: with a single watched identifier one pid has been recorded
\* on two ticks and another on the second tick only
C30_Witness ==
    /\ Len(app.monitored_processes) = 1
    /\ \E p, q \in DOMAIN app.history.child_histories :
         /\ app.history.child_histories[p].cpu.len = 2
         /\ app.history.child_histories[p].memory.len = 2
         /\ app.history.child_histories[q].cpu.len = 1
         /\ app.history.child_histories[q].memory.len = 1



\* ------------------------------------------- claims: removal and indices
\* C31: whenever the map can be read, all the aggregate samples recorded for
\* a published identifier lie in one window, the group of its history that
\* process_idx designates and the statistics are read from; removing an
\* identifier that was added before it does not start another window.
C31_RemovalKeepsWindow ==
    metrics.writer = "none" =>
      \A y \in DOMAIN metrics.processes :
        LET process_data == metrics.processes[y]
        IN  \A k \in 1..Len(process_data.history.histories) :
              process_data.history.histories[k].metrics.cpu.len > 0
                => k = process_data.process_idx + 1



\* ------------------------------ the process list of the side panel (app.rs)
MaxWatch == 2

\* ToString for ProcessIdentifier
identifier_to_string(identifier) ==
    IF identifier.kind = "Pid" THEN PidText(identifier.pid) ELSE identifier.name

\* ProcessHistory::remove_process leaving histories as it is
history_remove_process_keep(h, idx) == h

\* ProcessHistory::remove_process (process/history.rs)
history_remove_process(h, idx) ==
    IF idx < Len(h.histories)
    THEN [h EXCEPT !.histories =
            SubSeq(@, 1, idx) \o SubSeq(@, idx + 2, Len(@))]
    ELSE h

\* ProcessMonitorApp::remove_process leaving active_process_idx as it is
remove_process_keep_active(a, idx) ==
    [a EXCEPT
       !.monitored_processes = SubSeq(@, 1, idx) \o SubSeq(@, idx + 2, Len(@)),
       !.history = history_remove_process(@, idx)]

\* ProcessMonitorApp::remove_process
remove_process(a, idx) ==
    [a EXCEPT
       !.monitored_processes = SubSeq(@, 1, idx) \o SubSeq(@, idx + 2, Len(@)),
       !.history = history_remove_process(@, idx),
       !.active_process_idx =
           IF @.some
           THEN IF @.value > idx THEN [some |-> TRUE, value |-> @.value - 1]
                ELSE IF @.value = idx THEN None
                ELSE @
           ELSE @]

\* the process tables a refresh finds while the list is edited: pid 1 is a
\* process named "a" with CPU load 1 and 1 MiB, pid 2 a process whose name
\* is the text "pid:1", with CPU load 2 and 2 MiB; neither has a parent
WatchSnapshots ==
    {[p \in Pids |-> IF p \in S
                     THEN Process(NoParent, IF p = 1 THEN "a" ELSE PidText(1),
                                  FALSE, p, p * MiB)
                     ELSE NoProc] : S \in SUBSET (1..2)}

\* ProcessMonitorApp::default: nothing watched, nothing selected
InitWatch ==
    /\ InitMon
    /\ now = 0
    /\ app = [monitor |-> [last_update |-> 0, update_interval |-> 1],
              history |-> ProcessHistory_new(MaxCap),
              monitored_processes |-> <<>>,
              settings |-> [update_interval_ms |-> 1],
              active_process_idx |-> None]

\* ProcessSelector::show, By Name: the button of a running process's name.
\* query keeps the identifier chosen and the string made of it
AddByName(pid) ==
    /\ query = NoQuery
    /\ pid \in Present(system)
    /\ Len(app.monitored_processes) < MaxWatch
    /\ LET identifier == IdName(system[pid].name)
           text == identifier_to_string(identifier)
       IN  /\ IF text \notin Range(app.monitored_processes)
              THEN app' = [app EXCEPT
                             !.monitored_processes = Append(@, text),
                             !.active_process_idx =
                                 [some |-> TRUE,
                                  value |-> Len(app.monitored_processes)]]
              ELSE app' = app
           /\ query' = [op |-> "add_process", identifier |-> identifier,
                        text |-> text]
    /\ UNCHANGED <<now, system>>

\* ProcessSelector::show, By PID: the button of a running process
AddByPid(pid) ==
    /\ query = NoQuery
    /\ pid \in Present(system)
    /\ Len(app.monitored_processes) < MaxWatch
    /\ LET identifier == IdPid(pid)
           text == identifier_to_string(identifier)
       IN  /\ app' = [app EXCEPT
                        !.monitored_processes = Append(@, text),
                        !.active_process_idx =
                            [some |-> TRUE,
                             value |-> Len(app.monitored_processes)]]
           /\ query' = [op |-> "add_process", identifier |-> identifier,
                        text |-> text]
    /\ UNCHANGED <<now, system>>

\* the remove button of list entry idx: the selection is dropped when it is
\* this entry, then remove_process(idx); query keeps the index and the
\* application as it was when the button was pressed
RemoveProcess(idx) ==
    /\ query = NoQuery
    /\ idx < Len(app.monitored_processes)
    /\ LET deselected ==
               IF app.active_process_idx = [some |-> TRUE, value |-> idx]
               THEN [app EXCEPT !.active_process_idx = None]
               ELSE app
       IN  app' = remove_process(deselected, idx)
    /\ query' = [op |-> "remove_process", idx |-> idx, before |-> app]
    /\ UNCHANGED <<now, system>>

NextWatch ==
    \/ Advance
    \/ UpdateMetricsOn(WatchSnapshots)
    \/ \E pid \in 1..2 : AddByName(pid)
    \/ \E pid \in 1..2 : AddByPid(pid)
    \/ \E i \in 0..(MaxWatch - 1) : SelectProcess(i)
    \/ \E idx \in 0..(MaxWatch - 1) : RemoveProcess(idx)
    \/ Return /\ UNCHANGED appVars

StartWatch == InitWatch /\ IdleBuf /\ IdleWalk /\ IdleMetrics

SpecWatch == StartWatch /\ [][NextWatch /\ UNCHANGED <<bufVars, walk, metVars>>]_vars

\* the totals <<current_cpu, memory_mb>> update_metrics can record for a
\* watch entry
ValuesOf(text) ==
    UNION {{<<get_basic_stats(sys, ord, identifier_from(text)).current_cpu,
              get_basic_stats(sys, ord, identifier_from(text)).memory_mb>> :
              ord \in {o \in Orders(sys) :
                         get_basic_stats(sys, o, identifier_from(text)).some}} :
             sys \in WatchSnapshots}



\* ------------------------------------------------- claims: process list
\* C32: ProcessHistory holds no more aggregate histories than there are
\* watch entries, and every sample the history at index i retains, CPU or
\* memory, is a total that update_metrics can record for the identifier now
\* at index i of monitored_processes.
C32_HistoryFollowsEntry ==
    /\ Len(app.history.histories) <= Len(app.monitored_processes)
    /\ \A k \in 1..Len(app.history.histories) :
         LET recorded == app.history.histories[k]
             cpu == Retained(recorded.cpu)
             memory == Retained(recorded.memory)
             totals == ValuesOf(app.monitored_processes[k])
         IN  /\ \A n \in 1..Len(cpu) : cpu[n] \in {v[1] : v \in totals}
             /\ \A n \in 1..Len(memory) : memory[n] \in {v[2] : v \in totals}

\* C32 witness: entry 0 of two entries with different totals on record was
\* removed, and the entry left has its samples at index 0
C32_Witness ==
    /\ query.op = "remove_process"
    /\ query.idx = 0
    /\ Len(query.before.history.histories) = 2
    /\ query.before.history.histories[1].cpu.len >= 1
    /\ query.before.history.histories[2].cpu.len >= 1
    /\ ValuesOf(query.before.monitored_processes[1])
         # ValuesOf(query.before.monitored_processes[2])
    /\ Len(app.history.histories) = 1
    /\ app.history.histories[1] = query.before.history.histories[2]



\* C33: the Clear button on group i leaves every other group as it was: the
\* aggregate histories at the other indices and the per-member histories of
\* the pids that are members of another watched identifier are the same
\* after clear_process(i) as before it.
C33_ClearTouchesOnlyGroup ==
    query.op = "clear_process" =>
      LET i == query.idx
          old == query.before
      IN  \A j \in 0..(Len(old.monitored_processes) - 1) :
            j # i =>
              /\ j < Len(old.history.histories)
                   => app.history.histories[j + 1] = old.history.histories[j + 1]
              /\ \A pid \in WatchedMembers(system, <<old.monitored_processes[j + 1]>>)
                             \cap DOMAIN old.history.child_histories :
                   /\ pid \in DOMAIN app.history.child_histories
                   /\ app.history.child_histories[pid]
                        = old.history.child_histories[pid]



\* C34: active_process_idx is None or an index of monitored_processes, and
\* remove_process(idx), for every entry idx of the list, keeps it so: a
\* selection on another entry designates the same identifier afterwards, one
\* lower when it was after idx, and a selection on idx becomes None.
C34_SelectionFollowsRemoval ==
    LET active == app.active_process_idx
    IN  /\ active.some => active.value < Len(app.monitored_processes)
        /\ \A idx \in 0..(Len(app.monitored_processes) - 1) :
             LET after == remove_process(app, idx)
                 selected == after.active_process_idx
             IN  IF active.some /\ active.value # idx
                 THEN /\ selected.some
                      /\ selected.value
                           = IF active.value > idx THEN active.value - 1
                             ELSE active.value
                      /\ selected.value < Len(after.monitored_processes)
                      /\ after.monitored_processes[selected.value + 1]
                           = app.monitored_processes[active.value + 1]
                 ELSE selected = None

\* C34 witness: the entry before the selected one was removed and the
\* selection moved down with its identifier
C34_Witness ==
    /\ query.op = "remove_process"
    /\ query.before.active_process_idx.some
    /\ query.before.active_process_idx.value > query.idx
    /\ app.active_process_idx.some
    /\ app.monitored_processes[app.active_process_idx.value + 1]
         = query.before.monitored_processes[query.before.active_process_idx.value + 1]
    /\ query.before.monitored_processes[1] # query.before.monitored_processes[2]



\* C35: no identifier string occurs twice in monitored_processes, whatever
\* the processes added through the selector, by name or by PID.
C35_WatchListNoDuplicate == NoDup(app.monitored_processes)

\* C39: the string the selector stores for the identifier it was given
\* parses back to that identifier, kind included: From<&str> undoes
\* to_string for every Name and every Pid.
C39_IdentifierRoundTrip ==
    query.op = "add_process" =>
        /\ query.text = identifier_to_string(query.identifier)
        /\ identifier_from(query.text) = query.identifier



\* ------------------------------------ the watch list of Metrics, UI thread
\* the identifiers the UI thread adds and removes
SelectStrings == {"a", "b", PidText(1)}

\* the calls of the UI thread on a Metrics whose worker has not yet run
NextSelect ==
    \/ \E identifier \in SelectStrings : AddSelectedProcess(identifier)
    \/ \E identifier \in SelectStrings : RemoveSelectedProcess(identifier)
    \/ \E ms \in Intervals : SetMetricsInterval(ms)
    \/ \E history_length \in 1..MaxCap : SetHistoryLength(history_length)
    \/ ReadLock
    \/ ReadUnlock

SpecSelect ==
    StartLock /\ [][NextSelect /\ UNCHANGED <<bufVars, walk, appVars>>]_vars

\* C36: selected_processes never holds an identifier twice; a call of
\* add_selected_process with a watched identifier leaves it as it is and
\* with a new one appends it at the end; remove_selected_process takes the
\* identifier out and keeps the others in their order; every step leaves the
\* list as it was, one identifier longer at the end, or one identifier
\* shorter with the rest in order.
C36_WatchListInsertionOrder ==
    [][LET selected == metrics.selected_processes
       IN  /\ NoDup(selected) /\ NoDup(metrics'.selected_processes)
           /\ \A identifier \in SelectStrings :
                /\ add_selected_process(selected, identifier)
                     = IF identifier \in Range(selected) THEN selected
                       ELSE selected \o <<identifier>>
                /\ add_selected_process(
                       add_selected_process(selected, identifier), identifier)
                     = add_selected_process(selected, identifier)
                /\ remove_selected_process(metrics, identifier).selected_processes
                     = SelectSeq(selected, LAMBDA x : x # identifier)
           /\ \/ metrics'.selected_processes = selected
              \/ \E identifier \in SelectStrings \ Range(selected) :
                   metrics'.selected_processes = selected \o <<identifier>>
              \/ \E identifier \in Range(selected) :
                   metrics'.selected_processes
                     = SelectSeq(selected, LAMBDA x : x # identifier)]_vars

\* C36 witness: three identifiers are watched, in the order in which the
\* calls that had an effect added them
C36_Witness ==
    /\ Len(metrics.selected_processes) = 3
    /\ metrics.selected_processes[1] = "a"
    /\ metrics.selected_processes[2] = PidText(1)
    /\ metrics.selected_processes[3] = "b"



circular_buffer_new(size) ==
    [buffer |-> <<>>, write_pos |-> 0, len |-> 0, capacity |-> size]

\* CircularBuffer::push
circular_buffer_push(b, item) ==
    LET stored == IF b.len < b.capacity
                  THEN [b EXCEPT !.buffer = Append(@, item), !.len = @ + 1]
                  ELSE [b EXCEPT !.buffer[b.write_pos + 1] = item]
    IN  [stored EXCEPT !.write_pos = (b.write_pos + 1) % b.capacity]

\* as_vec reading the buffer from its first slot on
circular_buffer_as_vec_from_start(b) ==
    SubSeq(b.buffer, 1, Min2(b.len, Len(b.buffer)))

\* CircularBuffer::as_vec: iter() collected, buffer[head..] chained with
\* buffer[..head] and cut after tail items
circular_buffer_as_vec(b) ==
    LET head == IF b.len < b.capacity THEN 0 ELSE b.write_pos
        tail == IF b.len < b.capacity THEN b.len ELSE b.capacity
        chained == SubSeq(b.buffer, head + 1, Len(b.buffer))
                     \o SubSeq(b.buffer, 1, head)
    IN  SubSeq(chained, 1, Min2(tail, Len(chained)))

\* one push of an item; buf is the generic buffer here
PushRing(item) ==
    /\ Len(pushed) < MaxPush
    /\ buf' = circular_buffer_push(buf, item)
    /\ pushed' = Append(pushed, item)

NextRing == \E item \in 0..MaxVal : PushRing(item)

StartRing ==
    /\ \E size \in 1..MaxCap : buf = circular_buffer_new(size)
    /\ pushed = <<>>
    /\ InitMon /\ IdleWalk /\ IdleApp /\ IdleMetrics

SpecRing ==
    StartRing /\ [][NextRing /\ UNCHANGED <<monVars, walk, appVars, metVars>>]_vars

\* C38: after n pushes as_vec() is the last min(n, capacity) items pushed,
\* oldest first, and has that length; len is at most the capacity and
\* write_pos is below it.
C38_RingKeepsLastItems ==
    /\ circular_buffer_as_vec(buf) = LastN(pushed, buf.capacity)
    /\ Len(circular_buffer_as_vec(buf)) = Min2(Len(pushed), buf.capacity)
    /\ buf.len <= buf.capacity
    /\ buf.write_pos < buf.capacity

\* C38 witness: a buffer of capacity 2 or more that has wrapped and whose
\* write position is inside the buffer, the items kept being different
C38_Witness ==
    /\ buf.capacity >= 2
    /\ Len(pushed) > buf.capacity
    /\ buf.write_pos > 0
    /\ circular_buffer_as_vec(buf) # buf.buffer
    /\ circular_buffer_as_vec(buf) = LastN(pushed, buf.capacity)

=============================================================================
